---- MODULE Spec2Model ----
(***************************************************************************)
(* Model of model/model_cnn_rs_optimized.py: main, grid_search,            *)
(* process_and_evaluate_model and the sklearn metric calls it makes.       *)
(*                                                                         *)
(* Representation.                                                         *)
(*  - Python None is the empty sequence <<>>; a value v that may be None   *)
(*    is <<v>>.                                                            *)
(*  - A row's tensor field is represented by the number of values          *)
(*    np.fromstring(tensor_str, sep=' ') yields for it.                    *)
(*  - test_size is a percentage (50 stands for 0.5).                       *)
(*  - A metric is the exact rational value, stored as its numerator over   *)
(*    the common denominator MetricDen(n_test); a score is stored as the   *)
(*    numerator over 4 * MetricDen(n_test).                                *)
(*  - The trained network is a black box: fit may fail, and predict        *)
(*    returns any probability vector over Probs (in tenths).               *)
(*  - The shuffle of train_test_split(random_state=42) is a fixed but      *)
(*    unknown permutation: test_idx, chosen in Init, is the set of dataset *)
(*    positions it sends to the test part, the same in every evaluation.   *)
(***************************************************************************)
EXTENDS Integers, Sequences, FiniteSets

\* ---------------------------------------------------------------- bounds
MaxRows == 3
MaxCand == 2

\* ------------------------------------------------------ program constants
TensorLen == 729
FilterValue == 1
ThresholdTenths == 5

None == <<>>
Some(v) == <<v>>

Probs == {5, 10}
TestSizes == {0, 50}
ChiralLengths == {1, 2}
ChiralLabels == {"R", "S"}
TensorCounts == {728, 729, 730}
PoolingTypes == {"flatten", "global_avg", "global_max"}
EpochValues == {1, 50}

VARIABLES
    file_exists,   \* the dataset file can be read
    rows,          \* the rows of the dataset file
    test_size,     \* args.test_size, in percent
    test_idx,      \* dataset positions the seeded shuffle puts in the test part
    param_grid,    \* the argument of ParameterGrid: a list of grids
    pc,            \* position of the program
    idx,           \* number of configuration points the for loop has consumed
    best_score, best_params, best_result,      \* locals of grid_search
    dataset, labels, X_test, y_test, model,    \* locals of process_and_evaluate_model
    calls,         \* arguments of the calls of process_and_evaluate_model so far
    returns,       \* values those calls returned so far
    error,         \* the exception that ended the run, or None
    printed_best,  \* what line 147 printed, or None when it did not run
    ret,           \* return value of grid_search received by main
    out_file       \* rows written by to_csv, or None when nothing was written

inputs == <<file_exists, rows, test_size, test_idx, param_grid>>
gs_locals == <<best_score, best_params, best_result>>
pe_locals == <<dataset, labels, X_test, y_test, model>>
outputs == <<printed_best, ret, out_file>>
vars == <<inputs, pc, idx, gs_locals, pe_locals, calls, returns, error, outputs>>

\* ------------------------------------------------------------ ParameterGrid

\* One grid: itertools.product over the values of the keys in sorted key
\* order (epochs, nodes_per_layer, num_hidden_layers, pooling_type), the
\* last key varying fastest.
Product(g) ==
    LET E == g.epochs
        N == g.nodes_per_layer
        H == g.num_hidden_layers
        P == g.pooling_type
        total == Len(E) * Len(N) * Len(H) * Len(P)
    IN  [k \in 1..total |->
            LET j == k - 1
            IN  [epochs |-> E[((j \div (Len(P) * Len(H) * Len(N))) % Len(E)) + 1],
                 nodes_per_layer |-> N[((j \div (Len(P) * Len(H))) % Len(N)) + 1],
                 num_hidden_layers |-> H[((j \div Len(P)) % Len(H)) + 1],
                 pooling_type |-> P[(j % Len(P)) + 1]]]

RECURSIVE ParameterGrid(_)
ParameterGrid(pg) ==
    IF pg = <<>> THEN <<>>
    ELSE Product(Head(pg)) \o ParameterGrid(Tail(pg))

points == ParameterGrid(param_grid)

\* ------------------------------------------------- dataset load and parse

\* Mutant of Retain: the filter is not applied.
Retain_unfiltered(rs) == rs

\* dataset[dataset['chiral_length'] == 1]: boolean-mask selection.
RECURSIVE Retain(_)
Retain(rs) ==
    IF rs = <<>> THEN <<>>
    ELSE IF Head(rs).chiral_length = FilterValue
         THEN <<Head(rs)>> \o Retain(Tail(rs))
         ELSE Retain(Tail(rs))

\* Mutant of TensorOk: the assertion accepts a tensor with too many values.
TensorOk_atleast(row) == row.tensor >= TensorLen

\* parse_tensor's assertion on one row.
TensorOk(row) == row.tensor = TensorLen

\* dataset['tensor'].apply(parse_tensor): position of the first row whose
\* assertion fails, 0 when none fails.
RECURSIVE FirstBadFrom(_, _)
FirstBadFrom(ds, i) ==
    IF i > Len(ds) THEN 0
    ELSE IF ~TensorOk(ds[i]) THEN i
    ELSE FirstBadFrom(ds, i + 1)

FirstBad(ds) == FirstBadFrom(ds, 1)

\* dataset['chiral0'].apply(lambda x: 1 if x == 'R' else 0)
Label(x) == IF x = "R" THEN 1 ELSE 0
Labels(ds) == [i \in 1..Len(ds) |-> Label(ds[i].chiral0)]

\* ------------------------------------------------------- train_test_split

\* n_test = ceil(test_size * n_samples) for a float test_size.
NTest(n, ts) == (ts * n + 99) \div 100
NTrain(n, ts) == n - NTest(n, ts)
SplitOk(n, ts) == ts > 0 /\ ts < 100 /\ NTrain(n, ts) > 0 /\ NTest(n, ts) > 0

RECURSIVE SortedSeq(_)
SortedSeq(S) ==
    IF S = {} THEN <<>>
    ELSE LET m == CHOOSE x \in S : \A y \in S : x <= y
         IN  <<m>> \o SortedSeq(S \ {m})

Take(seq, S) == LET ix == SortedSeq(S) IN [k \in 1..Len(ix) |-> seq[ix[k]]]

\* ----------------------------------------------------------------- metrics

Gcd(a, b) == CHOOSE d \in 1..a : a % d = 0 /\ b % d = 0
                 /\ \A e \in 1..a : (a % e = 0 /\ b % e = 0) => e <= d
RECURSIVE LcmUpTo(_)
LcmUpTo(n) == IF n <= 1 THEN 1
              ELSE LET l == LcmUpTo(n - 1) IN (l * n) \div Gcd(l, n)

\* Common denominator of the four metrics for n test samples.
MetricDen(n) == n * LcmUpTo(2 * n)

\* np.where(y_pred > 0.5, 1, 0)
Classes(y_pred) == [i \in 1..Len(y_pred) |-> IF y_pred[i] > ThresholdTenths THEN 1 ELSE 0]

Support(yt, c) == Cardinality({i \in 1..Len(yt) : yt[i] = c})
Predicted(yp, c) == Cardinality({i \in 1..Len(yp) : yp[i] = c})
TP(yt, yp, c) == Cardinality({i \in 1..Len(yt) : yt[i] = c /\ yp[i] = c})
Matches(yt, yp) == Cardinality({i \in 1..Len(yt) : yt[i] = yp[i]})

\* accuracy_score
Accuracy(yt, yp) == (Matches(yt, yp) * MetricDen(Len(yt))) \div Len(yt)

\* precision_score(average='weighted', zero_division=0)
ClassPrecision(yt, yp, c) ==
    IF Predicted(yp, c) = 0 THEN 0
    ELSE (Support(yt, c) * TP(yt, yp, c) * MetricDen(Len(yt)))
             \div (Len(yt) * Predicted(yp, c))
Precision(yt, yp) == ClassPrecision(yt, yp, 0) + ClassPrecision(yt, yp, 1)

\* recall_score(average='weighted', zero_division=0)
ClassRecall(yt, yp, c) ==
    IF Support(yt, c) = 0 THEN 0
    ELSE (Support(yt, c) * TP(yt, yp, c) * MetricDen(Len(yt)))
             \div (Len(yt) * Support(yt, c))
Recall(yt, yp) == ClassRecall(yt, yp, 0) + ClassRecall(yt, yp, 1)

\* f1_score(average='weighted', zero_division=0)
ClassF1(yt, yp, c) ==
    IF Support(yt, c) + Predicted(yp, c) = 0 THEN 0
    ELSE (Support(yt, c) * 2 * TP(yt, yp, c) * MetricDen(Len(yt)))
             \div (Len(yt) * (Support(yt, c) + Predicted(yp, c)))
F1(yt, yp) == ClassF1(yt, yp, 0) + ClassF1(yt, yp, 1)

\* The tuple process_and_evaluate_model returns.
Evaluation(n, yt, yp) ==
    [length |-> n,
     accuracy |-> Accuracy(yt, yp),
     precision |-> Precision(yt, yp),
     recall |-> Recall(yt, yp),
     f1 |-> F1(yt, yp)]

\* score = (accuracy + precision + recall + f1) / 4, as a numerator over
\* 4 * MetricDen.
Score(r) == r.accuracy + r.precision + r.recall + r.f1

\* ------------------------------------------------------------------ inputs

RECURSIVE SeqsUpTo(_, _)
SeqsUpTo(S, n) ==
    IF n = 0 THEN {<<>>}
    ELSE LET shorter == SeqsUpTo(S, n - 1)
         IN  shorter \cup {Append(s, x) : s \in {t \in shorter : Len(t) = n - 1}, x \in S}

Distinct(s) == \A i, j \in 1..Len(s) : i # j => s[i] # s[j]
CandLists(S) == {s \in SeqsUpTo(S, MaxCand) : s # <<>> /\ Distinct(s)}

RowValues == [chiral_length : ChiralLengths, chiral0 : ChiralLabels, tensor : TensorCounts]

\* The grid main passes, lines 160-165.
MainGrid == [pooling_type |-> <<"flatten">>, num_hidden_layers |-> <<4>>,
             nodes_per_layer |-> <<128>>, epochs |-> <<50>>]

Grids == {[MainGrid EXCEPT !.pooling_type = p, !.epochs = e] :
              p \in CandLists(PoolingTypes), e \in CandLists(EpochValues)}

Row(cl, lab, t) == [chiral_length |-> cl, chiral0 |-> lab, tensor |-> t]

\* Ten rows, six of them with chiral_length = 1: three "R", then three that are not "R".
ScenarioRows ==
    << Row(1, "R", 729), Row(2, "S", 729), Row(1, "R", 729), Row(2, "R", 730),
       Row(1, "R", 729), Row(1, "S", 729), Row(2, "R", 729), Row(1, "r", 729),
       Row(2, "S", 728), Row(1, "S", 729) >>

\* A small dataset every grid is searched on.
SearchRows ==
    << Row(1, "R", 729), Row(2, "S", 730), Row(1, "S", 729), Row(1, "R", 729) >>

TestIdxChoices(rs, ts) ==
    LET n == Len(Retain(rs))
    IN  IF SplitOk(n, ts)
        THEN {S \in SUBSET (1..n) : Cardinality(S) = NTest(n, ts)}
        ELSE {{}}

InitLocals ==
    /\ pc = "main"
    /\ idx = 0
    /\ best_score = 0
    /\ best_params = None
    /\ best_result = None
    /\ dataset = <<>>
    /\ labels = <<>>
    /\ X_test = {}
    /\ y_test = <<>>
    /\ model = "none"
    /\ calls = <<>>
    /\ returns = <<>>
    /\ error = None
    /\ printed_best = None
    /\ ret = None
    /\ out_file = None

\* grid_search over any grid, on the small dataset.
Init ==
    /\ file_exists \in BOOLEAN
    /\ rows = SearchRows
    /\ test_size = 50
    /\ test_idx \in TestIdxChoices(rows, test_size)
    /\ param_grid \in {<<>>} \cup {<<g>> : g \in Grids}
                        \cup {<<MainGrid, [MainGrid EXCEPT !.pooling_type = <<"global_avg", "global_max">>]>>}
    /\ InitLocals

\* main's own grid, on any dataset of up to MaxRows rows and on ScenarioRows.
InitData ==
    /\ file_exists \in BOOLEAN
    /\ rows \in SeqsUpTo(RowValues, MaxRows) \cup {ScenarioRows}
    /\ test_size \in TestSizes
    /\ test_idx \in TestIdxChoices(rows, test_size)
    /\ param_grid = <<MainGrid>>
    /\ InitLocals

\* ----------------------------------------------------------------- actions

Raise(type, info) ==
    /\ error' = Some([type |-> type, info |-> info])
    /\ pc' = "raised"

\* main calls grid_search, which sets its accumulators (lines 167, 119-121).
grid_search_enter ==
    /\ pc = "main"
    /\ best_score' = 0
    /\ best_params' = None
    /\ best_result' = None
    /\ pc' = "for"
    /\ UNCHANGED <<inputs, idx, pe_locals, calls, returns, error, outputs>>

\* Mutant of for_next: the points are taken from the end of the enumeration.
for_next_reversed ==
    /\ pc = "for"
    /\ idx < Len(points)
    /\ calls' = Append(calls, points[Len(points) - idx])
    /\ pc' = "read_csv"
    /\ UNCHANGED <<inputs, idx, gs_locals, pe_locals, returns, error, outputs>>

\* The for loop takes the next point and calls process_and_evaluate_model
\* with it (lines 123-133).
for_next ==
    /\ pc = "for"
    /\ idx < Len(points)
    /\ calls' = Append(calls, points[idx + 1])
    /\ pc' = "read_csv"
    /\ UNCHANGED <<inputs, idx, gs_locals, pe_locals, returns, error, outputs>>

\* pd.read_csv and the chiral_length filter (lines 80-83).
read_csv ==
    /\ pc = "read_csv"
    /\ IF ~file_exists
       THEN /\ Raise("FileNotFoundError", 0)
            /\ UNCHANGED dataset
       ELSE /\ dataset' = Retain(rows)
            /\ pc' = "parse"
            /\ UNCHANGED error
    /\ UNCHANGED <<inputs, idx, gs_locals, labels, X_test, y_test, model,
                   calls, returns, outputs>>

\* parse_tensor over the retained rows, np.stack, and the labels
\* (lines 86-96).  The assertion message carries len(values).
parse ==
    /\ pc = "parse"
    /\ IF FirstBad(dataset) > 0
       THEN /\ Raise("AssertionError", dataset[FirstBad(dataset)].tensor)
            /\ UNCHANGED labels
       ELSE IF Len(dataset) = 0
       THEN /\ Raise("ValueError", 0)
            /\ UNCHANGED labels
       ELSE /\ labels' = Labels(dataset)
            /\ pc' = "split"
            /\ UNCHANGED error
    /\ UNCHANGED <<inputs, idx, gs_locals, dataset, X_test, y_test, model,
                   calls, returns, outputs>>

\* train_test_split(test_size=test_size, random_state=42) (line 99).
split ==
    /\ pc = "split"
    /\ IF ~SplitOk(Len(dataset), test_size)
       THEN /\ Raise("ValueError", test_size)
            /\ UNCHANGED <<X_test, y_test>>
       ELSE /\ X_test' = test_idx
            /\ y_test' = Take(labels, test_idx)
            /\ pc' = "fit"
            /\ UNCHANGED error
    /\ UNCHANGED <<inputs, idx, gs_locals, dataset, labels, model,
                   calls, returns, outputs>>

\* Mutant of build_fit: a failed fit is caught and the point is skipped.
build_fit_skipping ==
    /\ pc = "fit"
    /\ \E ok \in BOOLEAN :
          IF ok
          THEN /\ model' = "fitted"
               /\ pc' = "predict"
               /\ UNCHANGED <<error, idx>>
          ELSE /\ error' = Some([type |-> "TrainingError", info |-> 0])
               /\ model' = "none"
               /\ idx' = idx + 1
               /\ pc' = "for"
    /\ UNCHANGED <<inputs, gs_locals, dataset, labels, X_test, y_test,
                   calls, returns, outputs>>

\* build_cnn_model and model.fit (lines 102-104); the framework may fail.
build_fit ==
    /\ pc = "fit"
    /\ \E ok \in BOOLEAN :
          IF ok
          THEN /\ model' = "fitted"
               /\ pc' = "predict"
               /\ UNCHANGED error
          ELSE /\ Raise("TrainingError", 0)
               /\ model' = "compiled"
    /\ UNCHANGED <<inputs, idx, gs_locals, dataset, labels, X_test, y_test,
                   calls, returns, outputs>>

\* model.predict, the threshold, the four metrics and the return
\* (lines 107-116); the locals go out of scope.
predict_score ==
    /\ pc = "predict"
    /\ \E y_pred \in [1..Len(y_test) -> Probs] :
          returns' = Append(returns, Evaluation(Len(dataset), y_test, Classes(y_pred)))
    /\ dataset' = <<>>
    /\ labels' = <<>>
    /\ X_test' = {}
    /\ y_test' = <<>>
    /\ model' = "none"
    /\ pc' = "update"
    /\ UNCHANGED <<inputs, idx, gs_locals, calls, error, outputs>>

\* Mutant of update: the comparison is reversed.
update_reversed ==
    /\ pc = "update"
    /\ LET r == returns[Len(returns)]
           params == calls[Len(calls)]
           score == Score(r)
       IN  IF score < best_score
           THEN /\ best_score' = score
                /\ best_params' = Some(params)
                /\ best_result' = Some(r)
           ELSE UNCHANGED gs_locals
    /\ idx' = idx + 1
    /\ pc' = "for"
    /\ UNCHANGED <<inputs, pe_locals, calls, returns, error, outputs>>

\* Mutant of update: the latest point always replaces the best one.
update_always ==
    /\ pc = "update"
    /\ LET r == returns[Len(returns)]
           params == calls[Len(calls)]
           score == Score(r)
       IN  /\ best_score' = score
           /\ best_params' = Some(params)
           /\ best_result' = Some(r)
    /\ idx' = idx + 1
    /\ pc' = "for"
    /\ UNCHANGED <<inputs, pe_locals, calls, returns, error, outputs>>

\* Mutant of update: best_params is assigned only the first time.
update_stale_params ==
    /\ pc = "update"
    /\ LET r == returns[Len(returns)]
           params == calls[Len(calls)]
           score == Score(r)
       IN  IF score > best_score
           THEN /\ best_score' = score
                /\ best_params' = IF best_params = None THEN Some(params) ELSE best_params
                /\ best_result' = Some(r)
           ELSE UNCHANGED gs_locals
    /\ idx' = idx + 1
    /\ pc' = "for"
    /\ UNCHANGED <<inputs, pe_locals, calls, returns, error, outputs>>

\* The score and the comparison with best_score (lines 135-145).
update ==
    /\ pc = "update"
    /\ LET r == returns[Len(returns)]
           params == calls[Len(calls)]
           score == Score(r)
       IN  IF score > best_score
           THEN /\ best_score' = score
                /\ best_params' = Some(params)
                /\ best_result' = Some(r)
           ELSE UNCHANGED gs_locals
    /\ idx' = idx + 1
    /\ pc' = "for"
    /\ UNCHANGED <<inputs, pe_locals, calls, returns, error, outputs>>

\* The loop is exhausted: print best_params and return best_result
\* (lines 147-148).
for_exhausted ==
    /\ pc = "for"
    /\ idx = Len(points)
    /\ printed_best' = Some(best_params)
    /\ ret' = best_result
    /\ pc' = "to_csv"
    /\ UNCHANGED <<inputs, idx, gs_locals, pe_locals, calls, returns, error, out_file>>

\* pd.DataFrame([best_result]).to_csv (lines 168-169).
to_csv ==
    /\ pc = "to_csv"
    /\ out_file' = Some(ret)
    /\ pc' = "done"
    /\ UNCHANGED <<inputs, idx, gs_locals, pe_locals, calls, returns, error,
                   printed_best, ret>>

Next ==
    \/ grid_search_enter
    \/ for_next
    \/ read_csv
    \/ parse
    \/ split
    \/ build_fit
    \/ predict_score
    \/ update
    \/ for_exhausted
    \/ to_csv

Spec == Init /\ [][Next]_vars
SpecData == InitData /\ [][Next]_vars

\* ------------------------------------------------------------- properties

returned == pc \in {"to_csv", "done"}
Scores == [i \in 1..Len(returns) |-> Score(returns[i])]
IsMax(k) == \A j \in 1..Len(Scores) : Scores[k] >= Scores[j]
ScoresDistinct == \A i, j \in 1..Len(Scores) : i # j => Scores[i] # Scores[j]
FirstMax == CHOOSE k \in 1..Len(Scores) : IsMax(k) /\ \A j \in 1..(k - 1) : ~IsMax(j)

\* C1: a configuration space with exactly one point: the returned
\* BestResult is that point's evaluation and the printed best parameters are
\* that point, whatever its score, a score of 0 included.
C1_SinglePointIsBest ==
    (returned /\ Len(points) = 1) =>
        /\ ret = Some(returns[1])
        /\ printed_best = Some(Some(points[1]))

\* C2: several points with pairwise distinct scores: the returned
\* BestResult is the result of the point with the maximum score, wherever
\* that point stands in the enumeration.
C2_MaxOfDistinctScores ==
    (returned /\ Len(points) >= 2 /\ ScoresDistinct) =>
        \E k \in 1..Len(points) :
            /\ IsMax(k)
            /\ ret = Some(returns[k])
            /\ printed_best = Some(Some(points[k]))

C2_Witness ==
    /\ pc = "done"
    /\ Len(points) = 3
    /\ ScoresDistinct
    /\ IsMax(2)
    /\ out_file = Some(Some(returns[2]))

\* C3: two or more points attain the same maximum score: the returned
\* BestResult is the first of them in enumeration order.
C3_FirstOfTiedMaxima ==
    (returned /\ \E i, j \in 1..Len(Scores) : i < j /\ IsMax(i) /\ IsMax(j)) =>
        /\ ret = Some(returns[FirstMax])
        /\ printed_best = Some(Some(points[FirstMax]))

\* C4: an empty Cartesian product: grid_search returns no value and the
\* output file is not written.
C4_EmptySpaceFails ==
    Len(points) = 0 => (~returned /\ out_file = None)

\* C5: a failed evaluation aborts the whole run at that point: the failed
\* point is the last one called, nothing is returned, printed or written,
\* and no step follows the failure; a result is written only when every
\* point was evaluated.
C5_FailureAborts ==
    /\ [](error # None =>
            /\ pc = "raised"
            /\ Len(calls) = Len(returns) + 1
            /\ Len(calls) = idx + 1
            /\ ret = None /\ printed_best = None /\ out_file = None)
    /\ [](out_file # None => (error = None /\ Len(returns) = Len(points)))
    /\ [][pc # "raised"]_vars

C5_Witness ==
    /\ pc = "raised"
    /\ error[1].type = "TrainingError"
    /\ Len(returns) >= 1
    /\ best_result # None
    /\ Len(calls) < Len(points)

\* C6: best_score never decreases, and after every iteration it is at least
\* the score of every point evaluated so far.
C6_BestScoreMonotone ==
    /\ [](\A i \in 1..idx : best_score >= Scores[i])
    /\ [][best_score' >= best_score]_vars

C6_Witness ==
    /\ pc = "for"
    /\ idx >= 2
    /\ Scores[2] < Scores[1]
    /\ best_score = Scores[1]

\* C7: every point of the Cartesian product is evaluated exactly once, one
\* evaluation at a time, in the order of the candidate lists with
\* pooling_type varying fastest; {pooling_type: [flatten, global_avg],
\* epochs: [1]} gives two evaluations, flatten first.
Pos(s, x) == CHOOSE i \in 1..Len(s) : s[i] = x
InGrid(g, p) ==
    /\ \E i \in 1..Len(g.epochs) : g.epochs[i] = p.epochs
    /\ \E i \in 1..Len(g.nodes_per_layer) : g.nodes_per_layer[i] = p.nodes_per_layer
    /\ \E i \in 1..Len(g.num_hidden_layers) : g.num_hidden_layers[i] = p.num_hidden_layers
    /\ \E i \in 1..Len(g.pooling_type) : g.pooling_type[i] = p.pooling_type
GridSize(g) ==
    Len(g.epochs) * Len(g.nodes_per_layer) * Len(g.num_hidden_layers) * Len(g.pooling_type)
KeyPos(g, p) ==
    << Pos(g.epochs, p.epochs), Pos(g.nodes_per_layer, p.nodes_per_layer),
       Pos(g.num_hidden_layers, p.num_hidden_layers), Pos(g.pooling_type, p.pooling_type) >>
Before(g, p, q) ==
    \E m \in 1..4 :
        /\ KeyPos(g, p)[m] < KeyPos(g, q)[m]
        /\ \A l \in 1..(m - 1) : KeyPos(g, p)[l] = KeyPos(g, q)[l]
ScenarioGrid == [MainGrid EXCEPT !.pooling_type = <<"flatten", "global_avg">>, !.epochs = <<1>>]

C7_EachPointOnceInOrder ==
    /\ Len(calls) - Len(returns) \in {0, 1}
    /\ (Len(calls) = Len(returns) + 1) <=>
           (pc \in {"read_csv", "parse", "split", "fit", "predict", "raised"})
    /\ (returned /\ Len(param_grid) = 1) =>
           LET g == param_grid[1]
           IN  /\ Len(calls) = GridSize(g)
               /\ Len(returns) = GridSize(g)
               /\ \A i \in 1..Len(calls) : InGrid(g, calls[i])
               /\ \A i, j \in 1..Len(calls) : i < j => Before(g, calls[i], calls[j])
    /\ (returned /\ param_grid = <<ScenarioGrid>>) =>
           /\ Len(calls) = 2
           /\ calls[1].pooling_type = "flatten"
           /\ calls[2].pooling_type = "global_avg"

C7_Witness ==
    /\ pc = "done"
    /\ Len(param_grid) = 1
    /\ Len(param_grid[1].epochs) = 2
    /\ Len(param_grid[1].pooling_type) = 2
    /\ Len(returns) = 4

\* C8: the dataset is exactly the rows with chiral_length = 1, in their
\* original order; a label is 1 for "R" and 0 otherwise; the reported length
\* is the number of retained rows; ScenarioRows give length 6 and labels
\* [1,1,1,0,0,0].
Kept == {i \in 1..Len(rows) : rows[i].chiral_length = 1}
KthKept(k) == CHOOSE i \in Kept : Cardinality({j \in Kept : j <= i}) = k

C8_DatasetIsFilteredRows ==
    /\ pc \in {"parse", "split", "fit", "predict"} =>
           /\ Len(dataset) = Cardinality(Kept)
           /\ \A k \in 1..Len(dataset) : dataset[k] = rows[KthKept(k)]
    /\ pc \in {"split", "fit", "predict"} =>
           /\ Len(labels) = Cardinality(Kept)
           /\ \A k \in 1..Len(labels) :
                  /\ rows[KthKept(k)].chiral0 = "R" => labels[k] = 1
                  /\ rows[KthKept(k)].chiral0 # "R" => labels[k] = 0
    /\ \A k \in 1..Len(returns) : returns[k].length = Cardinality(Kept)
    /\ (rows = ScenarioRows /\ pc \in {"split", "fit", "predict"}) =>
           (Len(dataset) = 6 /\ labels = <<1, 1, 1, 0, 0, 0>>)
    /\ (rows = ScenarioRows /\ returns # <<>>) => returns[1].length = 6

C8_Witness ==
    /\ rows = ScenarioRows
    /\ pc = "predict"
    /\ labels = <<1, 1, 1, 0, 0, 0>>
    /\ Len(dataset) = 6

\* C9: a retained row whose tensor does not have 729 values ends the run with
\* the assertion failure of the first such row, before any split, model or
\* result; a row that is not retained never causes it.
BadKept == {i \in Kept : rows[i].tensor # 729}
FirstBadKept == CHOOSE i \in BadKept : \A j \in BadKept : i <= j
Malformed == error # None /\ error[1].type = "AssertionError"

C9_MalformedTensorAborts ==
    /\ Malformed =>
           /\ BadKept # {}
           /\ error[1].info = rows[FirstBadKept].tensor
           /\ pc = "raised"
           /\ X_test = {} /\ y_test = <<>> /\ model = "none"
           /\ returns = <<>> /\ ret = None /\ out_file = None
    /\ BadKept # {} =>
           /\ pc \in {"main", "for", "read_csv", "parse", "raised"}
           /\ pc = "raised" => (Malformed \/ ~file_exists)
    /\ (BadKept = {} /\ pc = "raised") => ~Malformed

C9_Witness ==
    /\ Malformed
    /\ \E i, j, k \in 1..Len(rows) :
          /\ i < j /\ j < k
          /\ rows[i].chiral_length # 1 /\ rows[i].tensor # 729
          /\ j \in BadKept /\ k \in BadKept
          /\ rows[j].tensor # rows[k].tensor
          /\ rows[i].tensor # rows[j].tensor

\* C10: best_params and best_result are both None, or both come from the
\* same evaluated point, and then best_score is the mean of the four metrics
\* of best_result and is positive; the printed parameters and the written
\* row describe the same point.
SamePoint(bp, br) ==
    \/ bp = None /\ br = None
    \/ \E k \in 1..Len(returns) : bp = Some(calls[k]) /\ br = Some(returns[k])

C10_BestPairConsistent ==
    /\ SamePoint(best_params, best_result)
    /\ best_result # None =>
           LET r == best_result[1]
           IN  /\ best_score = r.accuracy + r.precision + r.recall + r.f1
               /\ best_score > 0
    /\ pc = "done" => SamePoint(printed_best[1], out_file[1])

C10_Witness ==
    /\ pc = "done"
    /\ Len(returns) >= 2
    /\ out_file[1] = Some(returns[2])
    /\ printed_best[1] = Some(calls[2])
    /\ calls[1] # calls[2]

====
